---- MODULE Spec2Model ----
(***************************************************************************)
(* Model of the archive reader of fsarchiver (src/src/archreader.c): the   *)
(* volume session (open/close/incvolume/read_volheader), the header codec  *)
(* (read_header/read_dico), the resync scanner inside read_header and the  *)
(* block reader (read_block).  Files are byte sequences, the handlers are  *)
(* operators over (file, position) that follow the C code line by line.    *)
(***************************************************************************)
EXTENDS Integers, Sequences, FiniteSets, TLC

VARIABLES
    ai,        \* struct s_archreader: archfd, archid, curvol, filefmt, creatver
    openfds,   \* descriptors of the process that are currently open
    file,      \* bytes of the file behind ai.archfd
    pos,       \* file offset of ai.archfd
    op,        \* name of the last operation that ran
    arg,       \* inputs of the last operation
    ret,       \* return value of the last operation
    out,       \* output parameters and bookkeeping of the last operation
    sc,        \* locals of a read_header call that runs step by step
    hist       \* what the session has done so far

vars == <<ai, openfds, file, pos, op, arg, ret, out, sc, hist>>

(***************************************************************************)
(* Bounds of the model.                                                    *)
(***************************************************************************)
\* archive identities range over 0..MaxId
MaxId == 1
\* volume indexes range over 0..MaxVol
MaxVol == 1
\* allocations a call may be granted before malloc starts to fail
MaxAllocs == 9
\* garbage bytes put in front of a marker
MaxGarbage == 3
\* descriptors the process may hold open at once
MaxFds == 2

(***************************************************************************)
(* Constants of the program declared in headers outside src/.              *)
(***************************************************************************)
ERR_SUCCESS == 0
ERR_MINOR == 1
ERR_FATAL == 2
FSA_SIZEOF_MAGIC == 8
FSA_MAX_BLKSIZE == 4
FSA_FILESYSID_NULL == 65535
FSA_MAX_FILEFMTLEN == 32
FSA_MAX_PROGVERLEN == 32
DICTYPE_U16 == 2
DICTYPE_U32 == 3
DICTYPE_U64 == 4
DICTYPE_DATA == 5
VOLUMEHEADKEY_VOLNUM == 0
VOLUMEHEADKEY_ARCHID == 1
VOLUMEHEADKEY_FILEFORMATVER == 2
VOLUMEHEADKEY_PROGVERCREAT == 3
BLOCKHEADITEMKEY_REALSIZE == 0
BLOCKHEADITEMKEY_BLOCKOFFSET == 1
BLOCKHEADITEMKEY_COMPRESSALGO == 2
BLOCKHEADITEMKEY_ENCRYPTALGO == 3
BLOCKHEADITEMKEY_ARSIZE == 4
BLOCKHEADITEMKEY_COMPSIZE == 5
BLOCKHEADITEMKEY_ARCSUM == 6

\* the recognized markers, FSA_SIZEOF_MAGIC bytes each
FSA_MAGIC_VOLH == <<70, 115, 65, 48, 86, 111, 108, 72>>
FSA_MAGIC_BLKH == <<70, 115, 65, 48, 66, 108, 75, 104>>
FSA_MAGIC_OBJT == <<70, 115, 65, 48, 79, 98, 74, 116>>
ValidMagics == {FSA_MAGIC_VOLH, FSA_MAGIC_BLKH, FSA_MAGIC_OBJT}

is_magic_valid(magic) == magic \in ValidMagics

(***************************************************************************)
(* Bytes and little-endian integers.  The model checker computes with      *)
(* signed 32-bit integers, so a u32 that is a number of the program (an    *)
(* identity, a volume number, a size) is an integer below 2^31, a u32      *)
(* checksum is the pair <<high half, low half>> of its 16-bit halves, and  *)
(* a u64 is the pair <<high word, low word>>.                              *)
(***************************************************************************)
le16_to_cpu(b) == b[1] + 256 * b[2]

le32_to_cpu(b) == b[1] + 256 * b[2] + 65536 * b[3] + 16777216 * b[4]

\* le32_to_cpu of a checksum
le32_to_sum(b) == <<le16_to_cpu(SubSeq(b, 3, 4)), le16_to_cpu(SubSeq(b, 1, 2))>>

le64_to_cpu(b) == <<le32_to_cpu(SubSeq(b, 5, 8)), le32_to_cpu(SubSeq(b, 1, 4))>>

cpu_to_le16(n) == <<n % 256, (n \div 256) % 256>>

cpu_to_le32(n) == cpu_to_le16(n % 65536) \o cpu_to_le16((n \div 65536) % 65536)

\* cpu_to_le32 of a checksum
sum_to_le32(s) == cpu_to_le16(s[2]) \o cpu_to_le16(s[1])

cpu_to_le64(n) == cpu_to_le32(n) \o cpu_to_le32(0)

\* (x & 0xffff) + (x >> 16)
Fold16(x) == (x % 65536) + (x \div 65536)

\* the sum of the bytes from index i on, each weighted by the number of
\* rounds of the loop it takes part in (w = 1: the plain sum)
RECURSIVE FletcherSum(_, _, _)
FletcherSum(data, i, w) ==
    IF i > Len(data) THEN 0
    ELSE (IF w = 1 THEN 1 ELSE Len(data) - i + 1) * data[i] + FletcherSum(data, i + 1, w)

\* 32-bit Fletcher checksum of a byte sequence shorter than one 360-byte
\* round: sum1 and sum2 start at 0xffff, each byte is added to sum1 and sum1
\* to sum2, and both are folded to 16 bits twice
fletcher32(data) ==
    LET sum1 == 65535 + FletcherSum(data, 1, 1)
        sum2 == 65535 + 65535 * Len(data) + FletcherSum(data, 1, 2)
    IN  <<Fold16(Fold16(sum2)), Fold16(Fold16(sum1))>>

(***************************************************************************)
(* The wire format, as the writer produces it.                             *)
(***************************************************************************)
Item(type, section, key, data) ==
    [type |-> type, section |-> section, key |-> key, size |-> Len(data), data |-> data]

EncItem(it) ==
    <<it.type, it.section>> \o cpu_to_le16(it.key) \o cpu_to_le16(it.size) \o it.data

RECURSIVE EncItems(_)
EncItems(items) ==
    IF items = <<>> THEN <<>> ELSE EncItem(Head(items)) \o EncItems(Tail(items))

EncDico(items) == cpu_to_le16(Len(items)) \o EncItems(items)

\* header-len, header-data, header-checksum
Frame(body) == cpu_to_le16(Len(body)) \o body \o sum_to_le32(fletcher32(body))

EncHeader(magic, archid, fsid, items) ==
    magic \o cpu_to_le32(archid) \o cpu_to_le16(fsid) \o Frame(EncDico(items))

(***************************************************************************)
(* archreader_read_data: read(2) of exactly size bytes at the file offset. *)
(* A short read fails, leaves the offset where read(2) left it and has     *)
(* stored the bytes it got (data).                                         *)
(***************************************************************************)
read_data(fdok, f, p, size) ==
    IF ~fdok THEN [ok |-> FALSE, pos |-> p, data |-> <<>>]
    ELSE IF p + size <= Len(f)
         THEN [ok |-> TRUE, pos |-> p + size, data |-> SubSeq(f, p + 1, p + size)]
         ELSE [ok |-> FALSE, pos |-> IF p < Len(f) THEN Len(f) ELSE p,
               data |-> SubSeq(f, p + 1, Len(f))]

\* lseek64(fd, target, SEEK_SET) on a regular file
lseek64(fdok, target) == fdok /\ target >= 0

(***************************************************************************)
(* The dictionary (dico.c, outside src/): an ordered list of typed items.  *)
(***************************************************************************)
dico_alloc == <<>>

dico_add_generic(d, section, key, data, size, type) ==
    Append(d, [type |-> type, section |-> section, key |-> key, size |-> size, data |-> data])

\* index of the first item with that section and key, 0 if there is none
RECURSIVE dico_find(_, _, _, _)
dico_find(d, section, key, i) ==
    IF i > Len(d) THEN 0
    ELSE IF d[i].section = section /\ d[i].key = key THEN i
         ELSE dico_find(d, section, key, i + 1)

\* typed getter: fails when the item is missing or of another type or size
dico_get_int(d, section, key, type, size) ==
    LET i == dico_find(d, section, key, 1)
    IN  IF i = 0 \/ d[i].type # type \/ d[i].size # size
        THEN [ok |-> FALSE, val |-> 0]
        ELSE [ok |-> TRUE,
              val |-> IF size = 2 THEN le16_to_cpu(d[i].data) ELSE le32_to_cpu(d[i].data)]

dico_get_u16(d, section, key) == dico_get_int(d, section, key, DICTYPE_U16, 2)

dico_get_u32(d, section, key) == dico_get_int(d, section, key, DICTYPE_U32, 4)

\* dico_get_u32 of a checksum
dico_get_sum(d, section, key) ==
    LET i == dico_find(d, section, key, 1)
    IN  IF i = 0 \/ d[i].type # DICTYPE_U32 \/ d[i].size # 4
        THEN [ok |-> FALSE, val |-> <<0, 0>>]
        ELSE [ok |-> TRUE, val |-> le32_to_sum(d[i].data)]

dico_get_u64(d, section, key) ==
    LET i == dico_find(d, section, key, 1)
    IN  IF i = 0 \/ d[i].type # DICTYPE_U64 \/ d[i].size # 8
        THEN [ok |-> FALSE, val |-> <<0, 0>>]
        ELSE [ok |-> TRUE, val |-> le64_to_cpu(d[i].data)]

\* the bytes of a C string stored in a char array: those before the first NUL
RECURSIVE CStr(_)
CStr(bytes) ==
    IF bytes = <<>> \/ Head(bytes) = 0 THEN <<>> ELSE <<Head(bytes)>> \o CStr(Tail(bytes))

\* raw getter into a buffer of maxsize bytes; the value is used as a C string
dico_get_data(d, section, key, maxsize) ==
    LET i == dico_find(d, section, key, 1)
    IN  IF i = 0 \/ d[i].size > maxsize
        THEN [ok |-> FALSE, val |-> <<>>]
        ELSE [ok |-> TRUE, val |-> CStr(d[i].data)]

(***************************************************************************)
(* archreader_read_dico.  The header buffer holds headerlen bytes; a read  *)
(* at an offset beyond it is undefined: it faults (junk = -1) or yields    *)
(* whatever byte lies there (junk >= 0).  mem is the number of allocations *)
(* that succeed before malloc fails, used the number already made.         *)
(***************************************************************************)
BufByte(buf, junk, k) == IF k < Len(buf) THEN buf[k + 1] ELSE junk

BufBytes(buf, junk, k, n) == [j \in 1..n |-> BufByte(buf, junk, k + j - 1)]

DicoRes(r, p, d, live, hi, crashed, used) ==
    [ret |-> r, pos |-> p, dico |-> d, live |-> live, hi |-> hi, oob |-> FALSE,
     crashed |-> crashed, used |-> used]

\* lines 171-195: the loop over the items, bufpos an offset into the buffer
RECURSIVE read_items(_, _, _, _, _, _, _, _, _)
read_items(buf, junk, count, i, bufpos, d, p, used, mem) ==
    IF i >= count THEN DicoRes(ERR_SUCCESS, p, d, 0, bufpos, FALSE, used)
    ELSE IF junk < 0 /\ bufpos + 6 > Len(buf)
    THEN DicoRes(ERR_FATAL, p, d, 1, bufpos + 6, TRUE, used)
    ELSE LET type == BufByte(buf, junk, bufpos)
             section == BufByte(buf, junk, bufpos + 1)
             key == le16_to_cpu(BufBytes(buf, junk, bufpos + 2, 2))
             size == le16_to_cpu(BufBytes(buf, junk, bufpos + 4, 2))
         IN  IF used >= mem
             THEN DicoRes(ERR_FATAL, p, d, 1, bufpos + 6, FALSE, used)
             ELSE IF junk < 0 /\ bufpos + 6 + size > Len(buf)
             THEN DicoRes(ERR_FATAL, p, d, 1, bufpos + 6 + size, TRUE, used)
             ELSE read_items(buf, junk, count, i + 1, bufpos + 6 + size,
                      dico_add_generic(d, section, key,
                          BufBytes(buf, junk, bufpos + 6, size), size, type),
                      p, used + 1, mem)

\* variant that decodes the buffer whatever the stored checksum says
decode_dico_unchecked(buf, origsum, d, p, used, mem, junk) ==
    IF junk < 0 /\ 2 > Len(buf)
    THEN [DicoRes(ERR_FATAL, p, d, 1, 2, TRUE, used) EXCEPT !.oob = TRUE]
    ELSE LET r == read_items(buf, junk, le16_to_cpu(BufBytes(buf, junk, 0, 2)), 0, 2,
                             d, p, used, mem)
         IN  [r EXCEPT !.oob = r.hi > Len(buf)]

\* lines 156-198: checksum gate, record count, items
decode_dico(buf, origsum, d, p, used, mem, junk) ==
    IF fletcher32(buf) # origsum
    THEN DicoRes(ERR_MINOR, p, d, 0, 0, FALSE, used)
    ELSE IF junk < 0 /\ 2 > Len(buf)
    THEN [DicoRes(ERR_FATAL, p, d, 1, 2, TRUE, used) EXCEPT !.oob = TRUE]
    ELSE LET r == read_items(buf, junk, le16_to_cpu(BufBytes(buf, junk, 0, 2)), 0, 2,
                             d, p, used, mem)
         IN  [r EXCEPT !.oob = r.hi > Len(buf)]

read_dico(fdok, f, p, d, used, mem, junk) ==
    LET r1 == read_data(fdok, f, p, 2)
    IN  IF ~r1.ok THEN DicoRes(ERR_FATAL, r1.pos, d, 0, 0, FALSE, used)
        ELSE IF used >= mem THEN DicoRes(ERR_FATAL, r1.pos, d, 0, 0, FALSE, used)
        ELSE LET headerlen == le16_to_cpu(r1.data)
                 r2 == read_data(fdok, f, r1.pos, headerlen)
             IN  IF ~r2.ok THEN DicoRes(ERR_FATAL, r2.pos, d, 0, 0, FALSE, used + 1)
                 ELSE LET r3 == read_data(fdok, f, r2.pos, 4)
                      IN  IF ~r3.ok
                          THEN DicoRes(ERR_FATAL, r3.pos, d, 0, 0, FALSE, used + 1)
                          ELSE decode_dico(r2.data, le32_to_sum(r3.data), d, r3.pos,
                                           used + 1, mem, junk)

(***************************************************************************)
(* archreader_read_header.  The locals of a call are a record st:          *)
(*   pc      where the call stands: "scan" (the loop of lines 240-250),    *)
(*           "tail" (line 252 onwards) or "done"                           *)
(*   curpos, magic, pos   the locals and the file offset                   *)
(*   seeks   the offsets the loop has seeked to, in order                  *)
(*   reads   the offsets a magic window has been read at, in order         *)
(***************************************************************************)
NoMagic == [i \in 1..FSA_SIZEOF_MAGIC |-> 0]

\* what a read of size bytes leaves in a buffer that held old
Stored(old, r) == r.data \o SubSeq(old, Len(r.data) + 1, Len(old))

HdrState(pc, r, p, curpos, magic, d, dalloc, used, seeks, reads) ==
    [pc |-> pc, ret |-> r, pos |-> p, curpos |-> curpos, magic |-> magic,
     dico |-> d, dalloc |-> dalloc, fsid |-> FSA_FILESYSID_NULL, used |-> used,
     seeks |-> seeks, reads |-> reads, live |-> 0, oob |-> FALSE, crashed |-> FALSE]

\* variant that scans for a marker whether or not the caller allows it
header_begin_resync(fdok, f, p, allowseek, mem) ==
    IF mem <= 0
    THEN HdrState("done", ERR_FATAL, p, 0, NoMagic, <<>>, FALSE, 0, <<>>, <<>>)
    ELSE IF ~fdok
    THEN HdrState("done", ERR_FATAL, p, 0, NoMagic, dico_alloc, TRUE, 1, <<>>, <<>>)
    ELSE LET r == read_data(fdok, f, p, FSA_SIZEOF_MAGIC)
             magic == Stored(NoMagic, r)
         IN  IF ~r.ok
             THEN HdrState("done", ERR_FATAL, r.pos, p, magic, dico_alloc, TRUE, 1,
                           <<>>, <<p>>)
             ELSE HdrState("scan", ERR_SUCCESS, r.pos, p, magic, dico_alloc, TRUE, 1,
                           <<>>, <<p>>)

\* lines 213-238: init, dico_alloc, current offset, first magic window
header_begin(fdok, f, p, allowseek, mem) ==
    IF mem <= 0
    THEN HdrState("done", ERR_FATAL, p, 0, NoMagic, <<>>, FALSE, 0, <<>>, <<>>)
    ELSE IF ~fdok
    THEN HdrState("done", ERR_FATAL, p, 0, NoMagic, dico_alloc, TRUE, 1, <<>>, <<>>)
    ELSE LET r == read_data(fdok, f, p, FSA_SIZEOF_MAGIC)
             magic == Stored(NoMagic, r)
         IN  IF ~r.ok
             THEN HdrState("done", ERR_FATAL, r.pos, p, magic, dico_alloc, TRUE, 1,
                           <<>>, <<p>>)
             ELSE IF ~is_magic_valid(magic) /\ ~allowseek
             THEN HdrState("done", ERR_FATAL, r.pos, p, magic, dico_alloc, TRUE, 1,
                           <<>>, <<p>>)
             ELSE HdrState("scan", ERR_SUCCESS, r.pos, p, magic, dico_alloc, TRUE, 1,
                           <<>>, <<p>>)

\* seek target of one iteration of the loop: lseek64(ai->archfd, curpos++, SEEK_SET)
scan_target(curpos) == curpos

\* variant of the loop that tries the same offset again when a read fails
header_scan_retry(fdok, f, st) ==
    IF is_magic_valid(st.magic) THEN [st EXCEPT !.pc = "tail"]
    ELSE LET target == scan_target(st.curpos)
             r == read_data(fdok, f, target, FSA_SIZEOF_MAGIC)
         IN  IF ~lseek64(fdok, target) \/ ~r.ok THEN st
             ELSE [st EXCEPT !.curpos = @ + 1, !.pos = r.pos,
                             !.magic = Stored(st.magic, r),
                             !.seeks = Append(@, target),
                             !.reads = Append(@, target)]

\* lines 240-250: the loop test and one iteration
header_scan(fdok, f, st) ==
    IF is_magic_valid(st.magic) THEN [st EXCEPT !.pc = "tail"]
    ELSE LET target == scan_target(st.curpos)
         IN  IF ~lseek64(fdok, target)
             THEN [st EXCEPT !.pc = "done", !.ret = ERR_FATAL, !.curpos = @ + 1]
             ELSE LET r == read_data(fdok, f, target, FSA_SIZEOF_MAGIC)
                      s1 == [st EXCEPT !.curpos = @ + 1, !.pos = r.pos,
                                       !.magic = Stored(st.magic, r),
                                       !.seeks = Append(@, target),
                                       !.reads = Append(@, target)]
                  IN  IF ~r.ok THEN [s1 EXCEPT !.pc = "done", !.ret = ERR_FATAL]
                      ELSE s1

\* variant in which an archive id that does not match is a fatal error
header_tail_fatal(archid0, fdok, f, st, mem, junk) ==
    LET r1 == read_data(fdok, f, st.pos, 4)
    IN  IF ~r1.ok THEN [st EXCEPT !.pc = "done", !.ret = ERR_FATAL, !.pos = r1.pos]
        ELSE IF archid0 # 0 /\ le32_to_cpu(r1.data) # archid0
        THEN [st EXCEPT !.pc = "done", !.ret = ERR_FATAL, !.pos = r1.pos]
        ELSE LET r2 == read_data(fdok, f, r1.pos, 2)
             IN  IF ~r2.ok
                 THEN [st EXCEPT !.pc = "done", !.ret = ERR_FATAL, !.pos = r2.pos]
                 ELSE LET r3 == read_dico(fdok, f, r2.pos, st.dico, st.used, mem, junk)
                      IN  [st EXCEPT !.pc = "done", !.ret = r3.ret, !.pos = r3.pos,
                                     !.fsid = le16_to_cpu(r2.data), !.dico = r3.dico,
                                     !.used = r3.used, !.live = r3.live,
                                     !.oob = r3.oob, !.crashed = r3.crashed]

\* lines 252-279: archive id, filesystem id, dictionary
header_tail(archid0, fdok, f, st, mem, junk) ==
    LET r1 == read_data(fdok, f, st.pos, 4)
    IN  IF ~r1.ok THEN [st EXCEPT !.pc = "done", !.ret = ERR_FATAL, !.pos = r1.pos]
        ELSE IF archid0 # 0 /\ le32_to_cpu(r1.data) # archid0
        THEN [st EXCEPT !.pc = "done", !.ret = ERR_MINOR, !.pos = r1.pos]
        ELSE LET r2 == read_data(fdok, f, r1.pos, 2)
             IN  IF ~r2.ok
                 THEN [st EXCEPT !.pc = "done", !.ret = ERR_FATAL, !.pos = r2.pos]
                 ELSE LET r3 == read_dico(fdok, f, r2.pos, st.dico, st.used, mem, junk)
                      IN  [st EXCEPT !.pc = "done", !.ret = r3.ret, !.pos = r3.pos,
                                     !.fsid = le16_to_cpu(r2.data), !.dico = r3.dico,
                                     !.used = r3.used, !.live = r3.live,
                                     !.oob = r3.oob, !.crashed = r3.crashed]

\* one step of a call that has begun
header_step(archid0, fdok, f, st, mem, junk) ==
    IF st.pc = "scan" THEN header_scan(fdok, f, st)
    ELSE IF st.pc = "tail" THEN header_tail(archid0, fdok, f, st, mem, junk)
    ELSE st

RECURSIVE header_run(_, _, _, _, _, _)
header_run(archid0, fdok, f, st, mem, junk) ==
    IF st.pc = "done" THEN st
    ELSE header_run(archid0, fdok, f, header_step(archid0, fdok, f, st, mem, junk), mem, junk)

\* the whole call
read_header(archid0, fdok, f, p, allowseek, mem, junk) ==
    header_run(archid0, fdok, f, header_begin(fdok, f, p, allowseek, mem), mem, junk)

(***************************************************************************)
(* archreader_read_volheader.  a is the reader before the call; the result *)
(* holds the reader after it, the header that was read (hdr) and whether   *)
(* the dictionary of the header was destroyed.                             *)
(***************************************************************************)
VolRes(r, a, h, destroyed) ==
    [ret |-> r, ai |-> a, pos |-> h.pos, hdr |-> h, destroyed |-> destroyed]

\* lines 374-403: file format and creator version
volheader_formats(a, h) ==
    LET fmt == dico_get_data(h.dico, 0, VOLUMEHEADKEY_FILEFORMATVER, FSA_MAX_FILEFMTLEN)
        cv == dico_get_data(h.dico, 0, VOLUMEHEADKEY_PROGVERCREAT, FSA_MAX_PROGVERLEN)
        a1 == IF a.filefmt = <<>> /\ fmt.ok THEN [a EXCEPT !.filefmt = fmt.val] ELSE a
    IN  IF ~fmt.ok THEN VolRes(-1, a, h, TRUE)
        ELSE IF a.filefmt # <<>> /\ fmt.val # a.filefmt THEN VolRes(-1, a, h, TRUE)
        ELSE IF ~cv.ok THEN VolRes(-1, a1, h, TRUE)
        ELSE IF a1.creatver = <<>> THEN VolRes(0, [a1 EXCEPT !.creatver = cv.val], h, TRUE)
        ELSE VolRes(0, a1, h, TRUE)

\* variant that takes a volume whatever its number
volheader_ids_anyvol(a, h) ==
    LET readid == dico_get_u32(h.dico, 0, VOLUMEHEADKEY_ARCHID)
        volnum == dico_get_u32(h.dico, 0, VOLUMEHEADKEY_VOLNUM)
        a1 == IF a.archid = 0 /\ readid.ok THEN [a EXCEPT !.archid = readid.val] ELSE a
    IN  IF ~readid.ok THEN VolRes(-1, a, h, TRUE)
        ELSE IF a.archid # 0 /\ readid.val # a.archid THEN VolRes(-1, a, h, TRUE)
        ELSE IF ~volnum.ok THEN VolRes(-1, a1, h, TRUE)
        ELSE volheader_formats(a1, h)

\* lines 354-372: archive id and volume number
volheader_ids(a, h) ==
    LET readid == dico_get_u32(h.dico, 0, VOLUMEHEADKEY_ARCHID)
        volnum == dico_get_u32(h.dico, 0, VOLUMEHEADKEY_VOLNUM)
        a1 == IF a.archid = 0 /\ readid.ok THEN [a EXCEPT !.archid = readid.val] ELSE a
    IN  IF ~readid.ok THEN VolRes(-1, a, h, TRUE)
        ELSE IF a.archid # 0 /\ readid.val # a.archid THEN VolRes(-1, a, h, TRUE)
        ELSE IF ~volnum.ok THEN VolRes(-1, a1, h, TRUE)
        ELSE IF volnum.val # a1.curvol THEN VolRes(-1, a1, h, TRUE)
        ELSE volheader_formats(a1, h)

read_volheader(a, fdok, f, p, mem, junk) ==
    LET h == read_header(a.archid, fdok, f, p, FALSE, mem, junk)
    IN  IF h.ret # ERR_SUCCESS THEN VolRes(-1, a, h, FALSE)
        ELSE IF h.magic # FSA_MAGIC_VOLH THEN VolRes(-1, a, h, TRUE)
        ELSE volheader_ids(a, h)

(***************************************************************************)
(* archreader_read_block.  blk0 is the caller's struct s_blockinfo before  *)
(* the call; sumok is -1 (unknown), 0 (corrupt) or 1 (ok); allocs lists    *)
(* the sizes passed to malloc; hasdata tells blkdata from NULL.            *)
(***************************************************************************)
BlkRes(r, p, sumok, blk, hasdata, allocs, live) ==
    [ret |-> r, pos |-> p, sumok |-> sumok, blk |-> blk, hasdata |-> hasdata,
     allocs |-> allocs, live |-> live]

Zeros(n) == [i \in 1..n |-> 0]

\* variant whose replacement buffer has the stored size of the payload
block_payload_stored(fdok, f, p, blk0, blockoffset, curblocksize, compalgo, cryptalgo, finalsize, compsize, arblockcsumorig, mem) ==
    IF mem <= 0 THEN BlkRes(-1, p, -1, blk0, FALSE, <<finalsize>>, 0)
    ELSE LET r == read_data(fdok, f, p, finalsize)
             blk == [blkdata |-> r.data, blkrealsize |-> curblocksize,
                     blkoffset |-> blockoffset, blkarcsum |-> arblockcsumorig,
                     blkcompalgo |-> compalgo, blkcryptalgo |-> cryptalgo,
                     blkarsize |-> finalsize, blkcompsize |-> compsize]
         IN  IF ~r.ok THEN BlkRes(-1, r.pos, -1, blk0, FALSE, <<finalsize>>, 0)
             ELSE IF fletcher32(r.data) # arblockcsumorig
             THEN IF mem <= 1
                  THEN BlkRes(-1, r.pos, -1, [blk EXCEPT !.blkdata = <<>>], FALSE,
                              <<finalsize, curblocksize>>, 0)
                  ELSE BlkRes(0, IF r.pos - finalsize >= 0 THEN r.pos - finalsize ELSE r.pos,
                              0, [blk EXCEPT !.blkdata = Zeros(finalsize)], TRUE,
                              <<finalsize, finalsize>>, 1)
             ELSE BlkRes(0, r.pos, 1, blk, TRUE, <<finalsize>>, 1)

\* variant that leaves the position after the payload of a corrupt block
block_payload_noseek(fdok, f, p, blk0, blockoffset, curblocksize, compalgo, cryptalgo, finalsize, compsize, arblockcsumorig, mem) ==
    IF mem <= 0 THEN BlkRes(-1, p, -1, blk0, FALSE, <<finalsize>>, 0)
    ELSE LET r == read_data(fdok, f, p, finalsize)
             blk == [blkdata |-> r.data, blkrealsize |-> curblocksize,
                     blkoffset |-> blockoffset, blkarcsum |-> arblockcsumorig,
                     blkcompalgo |-> compalgo, blkcryptalgo |-> cryptalgo,
                     blkarsize |-> finalsize, blkcompsize |-> compsize]
         IN  IF ~r.ok THEN BlkRes(-1, r.pos, -1, blk0, FALSE, <<finalsize>>, 0)
             ELSE IF fletcher32(r.data) # arblockcsumorig
             THEN IF mem <= 1
                  THEN BlkRes(-1, r.pos, -1, [blk EXCEPT !.blkdata = <<>>], FALSE,
                              <<finalsize, curblocksize>>, 0)
                  ELSE BlkRes(0, r.pos,
                              0, [blk EXCEPT !.blkdata = Zeros(curblocksize)], TRUE,
                              <<finalsize, curblocksize>>, 1)
             ELSE BlkRes(0, r.pos, 1, blk, TRUE, <<finalsize>>, 1)

\* variant that reports every payload it could read as verified
block_payload_trusting(fdok, f, p, blk0, blockoffset, curblocksize, compalgo, cryptalgo, finalsize, compsize, arblockcsumorig, mem) ==
    IF mem <= 0 THEN BlkRes(-1, p, -1, blk0, FALSE, <<finalsize>>, 0)
    ELSE LET r == read_data(fdok, f, p, finalsize)
             blk == [blkdata |-> r.data, blkrealsize |-> curblocksize,
                     blkoffset |-> blockoffset, blkarcsum |-> arblockcsumorig,
                     blkcompalgo |-> compalgo, blkcryptalgo |-> cryptalgo,
                     blkarsize |-> finalsize, blkcompsize |-> compsize]
         IN  IF ~r.ok THEN BlkRes(-1, r.pos, -1, blk0, FALSE, <<finalsize>>, 0)
             ELSE BlkRes(0, r.pos, 1, blk, TRUE, <<finalsize>>, 1)

\* lines 471-515: allocate, read the payload, verify the checksum
block_payload(fdok, f, p, blk0, blockoffset, curblocksize, compalgo, cryptalgo, finalsize, compsize, arblockcsumorig, mem) ==
    IF mem <= 0 THEN BlkRes(-1, p, -1, blk0, FALSE, <<finalsize>>, 0)
    ELSE LET r == read_data(fdok, f, p, finalsize)
             blk == [blkdata |-> r.data, blkrealsize |-> curblocksize,
                     blkoffset |-> blockoffset, blkarcsum |-> arblockcsumorig,
                     blkcompalgo |-> compalgo, blkcryptalgo |-> cryptalgo,
                     blkarsize |-> finalsize, blkcompsize |-> compsize]
         IN  IF ~r.ok THEN BlkRes(-1, r.pos, -1, blk0, FALSE, <<finalsize>>, 0)
             ELSE IF fletcher32(r.data) # arblockcsumorig
             THEN IF mem <= 1
                  THEN BlkRes(-1, r.pos, -1, [blk EXCEPT !.blkdata = <<>>], FALSE,
                              <<finalsize, curblocksize>>, 0)
                  ELSE BlkRes(0, IF r.pos - finalsize >= 0 THEN r.pos - finalsize ELSE r.pos,
                              0, [blk EXCEPT !.blkdata = Zeros(curblocksize)], TRUE,
                              <<finalsize, curblocksize>>, 1)
             ELSE BlkRes(0, r.pos, 1, blk, TRUE, <<finalsize>>, 1)

\* variant that takes a logical size of any value
read_block_anysize(fdok, f, p, blkdico, blk0, skip, mem) ==
    LET blockoffset == dico_get_u64(blkdico, 0, BLOCKHEADITEMKEY_BLOCKOFFSET)
        curblocksize == dico_get_u32(blkdico, 0, BLOCKHEADITEMKEY_REALSIZE)
        compalgo == dico_get_u16(blkdico, 0, BLOCKHEADITEMKEY_COMPRESSALGO)
        cryptalgo == dico_get_u16(blkdico, 0, BLOCKHEADITEMKEY_ENCRYPTALGO)
        finalsize == dico_get_u32(blkdico, 0, BLOCKHEADITEMKEY_ARSIZE)
        compsize == dico_get_u32(blkdico, 0, BLOCKHEADITEMKEY_COMPSIZE)
        arblockcsumorig == dico_get_sum(blkdico, 0, BLOCKHEADITEMKEY_ARCSUM)
        b0 == [blk0 EXCEPT !.blkdata = <<>>]
    IN  IF ~blockoffset.ok \/ ~curblocksize.ok
        THEN BlkRes(-1, p, -1, b0, FALSE, <<>>, 0)
        ELSE IF ~compalgo.ok \/ ~cryptalgo.ok \/ ~finalsize.ok \/ ~compsize.ok
                \/ ~arblockcsumorig.ok
        THEN BlkRes(-1, p, -1, b0, FALSE, <<>>, 0)
        ELSE IF skip
        THEN IF ~fdok THEN BlkRes(-1, p, -1, b0, FALSE, <<>>, 0)
             ELSE BlkRes(0, p + finalsize.val, -1, b0, FALSE, <<>>, 0)
        ELSE block_payload(fdok, f, p, b0, blockoffset.val, curblocksize.val,
                           compalgo.val, cryptalgo.val, finalsize.val, compsize.val,
                           arblockcsumorig.val, mem)

\* variant that reads the payload of a block the caller wants to skip
read_block_noskip(fdok, f, p, blkdico, blk0, skip, mem) ==
    LET blockoffset == dico_get_u64(blkdico, 0, BLOCKHEADITEMKEY_BLOCKOFFSET)
        curblocksize == dico_get_u32(blkdico, 0, BLOCKHEADITEMKEY_REALSIZE)
        compalgo == dico_get_u16(blkdico, 0, BLOCKHEADITEMKEY_COMPRESSALGO)
        cryptalgo == dico_get_u16(blkdico, 0, BLOCKHEADITEMKEY_ENCRYPTALGO)
        finalsize == dico_get_u32(blkdico, 0, BLOCKHEADITEMKEY_ARSIZE)
        compsize == dico_get_u32(blkdico, 0, BLOCKHEADITEMKEY_COMPSIZE)
        arblockcsumorig == dico_get_sum(blkdico, 0, BLOCKHEADITEMKEY_ARCSUM)
        b0 == [blk0 EXCEPT !.blkdata = <<>>]
    IN  IF ~blockoffset.ok THEN BlkRes(-1, p, -1, b0, FALSE, <<>>, 0)
        ELSE IF ~curblocksize.ok \/ curblocksize.val > FSA_MAX_BLKSIZE
        THEN BlkRes(-1, p, -1, b0, FALSE, <<>>, 0)
        ELSE IF ~compalgo.ok \/ ~cryptalgo.ok \/ ~finalsize.ok \/ ~compsize.ok
                \/ ~arblockcsumorig.ok
        THEN BlkRes(-1, p, -1, b0, FALSE, <<>>, 0)
        ELSE block_payload(fdok, f, p, b0, blockoffset.val, curblocksize.val,
                           compalgo.val, cryptalgo.val, finalsize.val, compsize.val,
                           arblockcsumorig.val, mem)

\* lines 424-469: the fields of the block header, and the skip
read_block(fdok, f, p, blkdico, blk0, skip, mem) ==
    LET blockoffset == dico_get_u64(blkdico, 0, BLOCKHEADITEMKEY_BLOCKOFFSET)
        curblocksize == dico_get_u32(blkdico, 0, BLOCKHEADITEMKEY_REALSIZE)
        compalgo == dico_get_u16(blkdico, 0, BLOCKHEADITEMKEY_COMPRESSALGO)
        cryptalgo == dico_get_u16(blkdico, 0, BLOCKHEADITEMKEY_ENCRYPTALGO)
        finalsize == dico_get_u32(blkdico, 0, BLOCKHEADITEMKEY_ARSIZE)
        compsize == dico_get_u32(blkdico, 0, BLOCKHEADITEMKEY_COMPSIZE)
        arblockcsumorig == dico_get_sum(blkdico, 0, BLOCKHEADITEMKEY_ARCSUM)
        b0 == [blk0 EXCEPT !.blkdata = <<>>]
    IN  IF ~blockoffset.ok THEN BlkRes(-1, p, -1, b0, FALSE, <<>>, 0)
        ELSE IF ~curblocksize.ok \/ curblocksize.val > FSA_MAX_BLKSIZE
        THEN BlkRes(-1, p, -1, b0, FALSE, <<>>, 0)
        ELSE IF ~compalgo.ok \/ ~cryptalgo.ok \/ ~finalsize.ok \/ ~compsize.ok
                \/ ~arblockcsumorig.ok
        THEN BlkRes(-1, p, -1, b0, FALSE, <<>>, 0)
        ELSE IF skip
        THEN IF ~fdok THEN BlkRes(-1, p, -1, b0, FALSE, <<>>, 0)
             ELSE BlkRes(0, p + finalsize.val, -1, b0, FALSE, <<>>, 0)
        ELSE block_payload(fdok, f, p, b0, blockoffset.val, curblocksize.val,
                           compalgo.val, cryptalgo.val, finalsize.val, compsize.val,
                           arblockcsumorig.val, mem)

(***************************************************************************)
(* archreader_volpath and archreader_incvolume.  Paths are sequences of    *)
(* characters; canon is what realpath(3) answers for the base path.        *)
(***************************************************************************)
DigitChar == <<"0", "1", "2", "3", "4", "5", "6", "7", "8", "9">>

\* "%ld"
RECURSIVE Decimal(_)
Decimal(n) ==
    IF n < 10 THEN <<DigitChar[n + 1]>> ELSE Decimal(n \div 10) \o <<DigitChar[(n % 10) + 1]>>

\* "%.2ld"
Decimal2(n) == IF n < 10 THEN <<"0">> \o Decimal(n) ELSE Decimal(n)

\* variant that writes every volume index in plain decimal
volpath_plain(a, canon) ==
    IF Len(a.basepath) < 4 THEN [ret |-> -1, ai |-> a]
    ELSE IF a.curvol = 0
    THEN [ret |-> 0,
          ai |-> [a EXCEPT !.volpath = IF canon.ok THEN canon.path ELSE a.basepath]]
    ELSE [ret |-> 0,
          ai |-> [a EXCEPT !.volpath =
                      SubSeq(a.basepath, 1, Len(a.basepath) - 2) \o Decimal(a.curvol)]]

\* lines 283-312
volpath(a, canon) ==
    IF Len(a.basepath) < 4 THEN [ret |-> -1, ai |-> a]
    ELSE IF a.curvol = 0
    THEN [ret |-> 0,
          ai |-> [a EXCEPT !.volpath = IF canon.ok THEN canon.path ELSE a.basepath]]
    ELSE [ret |-> 0,
          ai |-> [a EXCEPT !.volpath =
                      SubSeq(a.basepath, 1, Len(a.basepath) - 2)
                      \o (IF a.curvol < 100 THEN Decimal2(a.curvol)
                          ELSE Decimal(a.curvol))]]

NoCanon == [ok |-> FALSE, path |-> <<>>]

\* variant that also drops the file handle
incvolume_closing(a) == volpath([a EXCEPT !.curvol = @ + 1, !.archfd = -1], NoCanon)

\* lines 314-319
incvolume(a) == volpath([a EXCEPT !.curvol = @ + 1], NoCanon)

(***************************************************************************)
(* The state machine.                                                      *)
(***************************************************************************)
\* archreader_init
InitReader(basepath) ==
    [archfd |-> -1, archid |-> 0, curvol |-> 0, filefmt |-> <<>>, creatver |-> <<>>,
     basepath |-> basepath, volpath |-> <<>>]

NoBlk ==
    [blkdata |-> <<>>, blkrealsize |-> 0, blkoffset |-> <<0, 0>>, blkarcsum |-> <<0, 0>>,
     blkcompalgo |-> 0, blkcryptalgo |-> 0, blkarsize |-> 0, blkcompsize |-> 0]

Idle == HdrState("idle", ERR_SUCCESS, 0, 0, NoMagic, <<>>, FALSE, 0, <<>>, <<>>)

NoOut ==
    [hret |-> ERR_SUCCESS, magic |-> NoMagic, dico |-> <<>>, dalloc |-> FALSE,
     fsid |-> FSA_FILESYSID_NULL, seeks |-> <<>>, reads |-> <<>>, live |-> 0,
     hi |-> 0, oob |-> FALSE, crashed |-> FALSE, destroyed |-> FALSE,
     sumok |-> -1, blk |-> NoBlk, hasdata |-> FALSE, allocs |-> <<>>]

NoArg == [how |-> "", allowseek |-> FALSE, skip |-> FALSE, mem |-> 0, junk |-> 0,
          pos |-> 0]

\* accepted, lastvol, accid: a volume header was accepted, and the last one's
\* volume number and identity; blockread: a payload was read since the last
\* open; corrupt: offset of the payload of the block the last call reported
\* corrupt, -1 if it did not
\* corruptlen: the on-disk size of that block
NoHist == [accepted |-> FALSE, lastvol |-> -1, accid |-> -1, blockread |-> FALSE,
           corrupt |-> -1, corruptlen |-> 0]

OutHdr(h) ==
    [NoOut EXCEPT !.hret = h.ret, !.magic = h.magic, !.dico = h.dico,
                  !.dalloc = h.dalloc, !.fsid = h.fsid, !.seeks = h.seeks,
                  !.reads = h.reads, !.live = h.live, !.oob = h.oob,
                  !.crashed = h.crashed]

\* read(2) and lseek(2) work on a descriptor that is open
FdOk == ai.archfd \in openfds

\* a call can be made while the process lives and no other call is running
Callable == ~out.crashed /\ sc.pc = "idle"

\* open64 answers the lowest descriptor that is free
LowestFree(fds) == CHOOSE n \in 3..(3 + Cardinality(fds)) :
                       n \notin fds /\ \A m \in 3..(n - 1) : m \in fds

\* archreader_open on a path that holds the bytes f; how is what the system
\* answers: "enoent" (open64 fails), "estat" (fstat64 fails), "notreg", "ok"
Open(f, how) ==
    /\ Callable
    /\ Cardinality(openfds) < MaxFds
    /\ LET fd == LowestFree(openfds)
       IN  IF how = "enoent"
           THEN /\ ai' = [ai EXCEPT !.archfd = -1]
                /\ ret' = -1
                /\ UNCHANGED <<openfds, file, pos>>
           ELSE /\ ai' = [ai EXCEPT !.archfd = fd]
                /\ openfds' = IF how = "notreg" THEN openfds ELSE openfds \cup {fd}
                /\ file' = IF how = "notreg" THEN <<>> ELSE f
                /\ pos' = 0
                /\ ret' = IF how = "ok" THEN 0 ELSE -1
    /\ op' = "open"
    /\ arg' = [NoArg EXCEPT !.how = how]
    /\ out' = NoOut
    /\ hist' = [hist EXCEPT !.blockread = FALSE, !.corrupt = -1, !.corruptlen = 0]
    /\ UNCHANGED sc

\* archreader_close
Close ==
    /\ Callable
    /\ IF ai.archfd < 0
       THEN /\ ret' = -1
            /\ UNCHANGED <<ai, openfds>>
       ELSE /\ openfds' = openfds \ {ai.archfd}
            /\ ai' = [ai EXCEPT !.archfd = -1]
            /\ ret' = 0
    /\ file' = IF FdOk THEN <<>> ELSE file
    /\ pos' = IF FdOk THEN 0 ELSE pos
    /\ op' = "close"
    /\ arg' = NoArg
    /\ out' = NoOut
    /\ hist' = [hist EXCEPT !.corrupt = -1, !.corruptlen = 0]
    /\ UNCHANGED sc

\* archreader_incvolume
IncVolume ==
    /\ Callable
    /\ ai.curvol < MaxVol
    /\ LET r == incvolume(ai)
       IN  /\ ai' = r.ai
           /\ ret' = r.ret
    /\ op' = "incvolume"
    /\ arg' = NoArg
    /\ out' = NoOut
    /\ hist' = [hist EXCEPT !.corrupt = -1, !.corruptlen = 0]
    /\ UNCHANGED <<openfds, file, pos, sc>>

\* archreader_volpath; canon is what realpath(3) answers
Volpath(canon) ==
    /\ Callable
    /\ LET r == volpath(ai, canon)
       IN  /\ ai' = r.ai
           /\ ret' = r.ret
    /\ op' = "volpath"
    /\ arg' = [NoArg EXCEPT !.how = IF canon.ok THEN "canon" ELSE "nocanon"]
    /\ out' = NoOut
    /\ hist' = [hist EXCEPT !.corrupt = -1, !.corruptlen = 0]
    /\ UNCHANGED <<openfds, file, pos, sc>>

\* archreader_read_volheader
ReadVolheader(mem, junk) ==
    /\ Callable
    /\ LET r == read_volheader(ai, FdOk, file, pos, mem, junk)
           id == dico_get_u32(r.hdr.dico, 0, VOLUMEHEADKEY_ARCHID)
           vn == dico_get_u32(r.hdr.dico, 0, VOLUMEHEADKEY_VOLNUM)
       IN  /\ ai' = r.ai
           /\ pos' = r.pos
           /\ ret' = r.ret
           /\ out' = [OutHdr(r.hdr) EXCEPT !.destroyed = r.destroyed]
           /\ hist' = IF r.ret = 0
                      THEN [hist EXCEPT !.accepted = TRUE, !.lastvol = vn.val,
                                        !.accid = id.val, !.corrupt = -1, !.corruptlen = 0]
                      ELSE [hist EXCEPT !.corrupt = -1, !.corruptlen = 0]
    /\ op' = "read_volheader"
    /\ arg' = [NoArg EXCEPT !.mem = mem, !.junk = junk, !.pos = pos]
    /\ UNCHANGED <<openfds, file, sc>>

\* archreader_read_header, the whole call
ReadHeader(allowseek, mem, junk) ==
    /\ Callable
    /\ LET h == read_header(ai.archid, FdOk, file, pos, allowseek, mem, junk)
       IN  /\ pos' = h.pos
           /\ ret' = h.ret
           /\ out' = OutHdr(h)
    /\ op' = "read_header"
    /\ arg' = [NoArg EXCEPT !.allowseek = allowseek, !.mem = mem, !.junk = junk,
                            !.pos = pos]
    /\ hist' = [hist EXCEPT !.corrupt = -1, !.corruptlen = 0]
    /\ UNCHANGED <<ai, openfds, file, sc>>

\* archreader_read_dico into a fresh dictionary
ReadDico(mem, junk) ==
    /\ Callable
    /\ LET r == read_dico(FdOk, file, pos, dico_alloc, 0, mem, junk)
       IN  /\ pos' = r.pos
           /\ ret' = r.ret
           /\ out' = [NoOut EXCEPT !.hret = r.ret, !.dico = r.dico, !.dalloc = TRUE,
                                   !.live = r.live, !.hi = r.hi, !.oob = r.oob,
                                   !.crashed = r.crashed]
    /\ op' = "read_dico"
    /\ arg' = [NoArg EXCEPT !.mem = mem, !.junk = junk, !.pos = pos]
    /\ hist' = [hist EXCEPT !.corrupt = -1, !.corruptlen = 0]
    /\ UNCHANGED <<ai, openfds, file, sc>>

\* archreader_read_block on the dictionary the last read_header handed out
ReadBlock(skip, mem) ==
    /\ Callable
    /\ op = "read_header"
    /\ ret = ERR_SUCCESS
    /\ LET r == read_block(FdOk, file, pos, out.dico, NoBlk, skip, mem)
       IN  /\ pos' = r.pos
           /\ ret' = r.ret
           /\ out' = [NoOut EXCEPT !.dico = out.dico, !.dalloc = out.dalloc,
                                   !.magic = out.magic,
                                   !.sumok = r.sumok, !.blk = r.blk,
                                   !.hasdata = r.hasdata, !.allocs = r.allocs,
                                   !.live = r.live]
           /\ hist' = [hist EXCEPT
                          !.blockread = @ \/ (~skip /\ r.allocs # <<>> /\ mem > 0),
                          !.corrupt = IF r.ret = 0 /\ r.sumok = 0 THEN pos ELSE -1,
                          !.corruptlen = IF r.ret = 0 /\ r.sumok = 0
                                         THEN r.blk.blkarsize ELSE 0]
    /\ op' = "read_block"
    /\ arg' = [NoArg EXCEPT !.skip = skip, !.mem = mem, !.pos = pos]
    /\ UNCHANGED <<ai, openfds, file, sc>>

\* archreader_read_header step by step: entry up to the first magic window
HeaderBegin(allowseek, mem, junk) ==
    /\ Callable
    /\ sc' = header_begin(FdOk, file, pos, allowseek, mem)
    /\ pos' = sc'.pos
    /\ op' = "read_header"
    /\ arg' = [NoArg EXCEPT !.allowseek = allowseek, !.mem = mem, !.junk = junk,
                            !.pos = pos]
    /\ ret' = ERR_SUCCESS
    /\ out' = NoOut
    /\ UNCHANGED <<ai, openfds, file, hist>>

\* one iteration of the scan loop, or the rest of the header
HeaderStep ==
    /\ sc.pc \in {"scan", "tail"}
    /\ sc' = header_step(ai.archid, FdOk, file, sc, arg.mem, arg.junk)
    /\ pos' = sc'.pos
    /\ UNCHANGED <<ai, openfds, file, op, arg, ret, out, hist>>

\* the call returns
HeaderReturn ==
    /\ sc.pc = "done"
    /\ ret' = sc.ret
    /\ out' = OutHdr(sc)
    /\ sc' = Idle
    /\ hist' = [hist EXCEPT !.corrupt = -1, !.corruptlen = 0]
    /\ UNCHANGED <<ai, openfds, file, pos, op, arg>>

(***************************************************************************)
(* Inputs of the dictionary codec: framed dictionaries as the writer       *)
(* produces them, the same with one byte changed, frames whose checksum    *)
(* matches but whose lengths lie, and frames cut short.                    *)
(***************************************************************************)
\* out-of-buffer reads: fault (-1) or one of these bytes
JunkBytes == {-1, 0, 1}

\* amounts added (mod 256) to a byte to change it
Deltas == {1, 128, 255}

CodecDicos ==
    { <<>>,
      <<Item(DICTYPE_U16, 0, 1, cpu_to_le16(7))>>,
      <<Item(DICTYPE_U32, 0, 1, cpu_to_le32(1)), Item(DICTYPE_DATA, 1, 2, <<49, 0>>)>> }

ValidFrames == { Frame(EncDico(d)) : d \in CodecDicos }

\* the L header bytes and the stored checksum of a complete frame
FrameLen(f) == le16_to_cpu(SubSeq(f, 1, 2))

FrameComplete(f) == Len(f) >= 2 /\ Len(f) >= 2 + FrameLen(f) + 4

FrameBody(f) == SubSeq(f, 3, 2 + FrameLen(f))

FrameSum(f) == le32_to_sum(SubSeq(f, 3 + FrameLen(f), 6 + FrameLen(f)))

Changed(f, i, delta) == [f EXCEPT ![i] = (@ + delta) % 256]

\* one byte of the L-byte region changed
BodyMutants ==
    UNION { { Changed(v, i, delta) : i \in 3..(2 + FrameLen(v)), delta \in Deltas }
            : v \in ValidFrames }

\* one byte of the stored checksum changed
SumMutants ==
    UNION { { Changed(v, i, 1) : i \in (3 + FrameLen(v))..Len(v) } : v \in ValidFrames }

\* header bytes that do not hold what their lengths promise
LyingBodies ==
    { <<>>, <<1>>, <<1, 0>>, <<1, 0, DICTYPE_U16, 0, 1>>,
      <<1, 0, DICTYPE_U32, 0, 1, 0, 4, 0, 7>>,
      <<2, 0>> \o EncItem(Item(DICTYPE_U16, 0, 1, cpu_to_le16(7))),
      <<0, 0>> \o EncItem(Item(DICTYPE_U16, 0, 1, cpu_to_le16(7))) }

LyingFrames == { Frame(b) : b \in LyingBodies }

CutFrames == UNION { { SubSeq(v, 1, n) : n \in {0, 1, 3, Len(v) - 1} } : v \in ValidFrames }

DicoStreams == ValidFrames \cup BodyMutants \cup SumMutants \cup LyingFrames \cup CutFrames

InitDico ==
    /\ ai = [InitReader(<<>>) EXCEPT !.archfd = 3]
    /\ openfds = {3}
    /\ file \in DicoStreams
    /\ pos = 0
    /\ op = "init"
    /\ arg = NoArg
    /\ ret = 0
    /\ out = NoOut
    /\ sc = Idle
    /\ hist = NoHist

\* the codec is applied once to each input
NextDico == op = "init" /\ \E mem \in 0..MaxAllocs, junk \in JunkBytes : ReadDico(mem, junk)

SpecDico == InitDico /\ [][NextDico]_vars

\* a first read_dico of a frame that could be read completely
DicoDecoded ==
    /\ op = "read_dico"
    /\ arg.pos = 0
    /\ arg.mem >= 1
    /\ FrameComplete(file)

\* the file is a frame of the writer with one byte of its header bytes changed
OneByteChanged ==
    \E v \in ValidFrames :
        /\ Len(v) = Len(file)
        /\ \E i \in 3..(2 + FrameLen(v)) :
               /\ file[i] # v[i]
               /\ \A j \in 1..Len(v) : j # i => file[j] = v[j]

\* C5: a complete frame whose computed checksum differs from the stored one
\* yields ERR_MINOR and an empty dictionary; records are decoded only when
\* the checksums are equal; a frame of the writer with one header byte
\* changed yields ERR_MINOR.
C5_ChecksumGate ==
    DicoDecoded =>
        /\ fletcher32(FrameBody(file)) # FrameSum(file)
               => ret = ERR_MINOR /\ out.dico = <<>>
        /\ out.dico # <<>> => fletcher32(FrameBody(file)) = FrameSum(file)
        /\ OneByteChanged => ret = ERR_MINOR /\ out.dico = <<>>

C5_Witness ==
    /\ DicoDecoded
    /\ OneByteChanged
    /\ ret = ERR_MINOR
    /\ out.dico = <<>>

\* C6: decoding a frame whose checksum matches reads no byte outside the
\* L-byte header buffer; where the lengths would lead outside it, the call
\* returns ERR_FATAL instead.
C6_ReadsInBuffer ==
    (DicoDecoded /\ fletcher32(FrameBody(file)) = FrameSum(file)) =>
        /\ ~out.crashed
        /\ out.hi <= FrameLen(file)

(***************************************************************************)
(* Inputs of the block reader and of the resync scanner: a block header,   *)
(* the payload as it lies on disk, garbage, and what follows.              *)
(***************************************************************************)
BlockItems(blockoffset, realsize, arsize, arcsum) ==
    << Item(DICTYPE_U64, 0, BLOCKHEADITEMKEY_BLOCKOFFSET, cpu_to_le64(blockoffset)),
       Item(DICTYPE_U32, 0, BLOCKHEADITEMKEY_REALSIZE, cpu_to_le32(realsize)),
       Item(DICTYPE_U16, 0, BLOCKHEADITEMKEY_COMPRESSALGO, cpu_to_le16(0)),
       Item(DICTYPE_U16, 0, BLOCKHEADITEMKEY_ENCRYPTALGO, cpu_to_le16(0)),
       Item(DICTYPE_U32, 0, BLOCKHEADITEMKEY_ARSIZE, cpu_to_le32(arsize)),
       Item(DICTYPE_U32, 0, BLOCKHEADITEMKEY_COMPSIZE, cpu_to_le32(arsize)),
       Item(DICTYPE_U32, 0, BLOCKHEADITEMKEY_ARCSUM, sum_to_le32(arcsum)) >>

\* the header of a block written with payload `written`
BlockHeader(archid, realsize, written) ==
    EncHeader(FSA_MAGIC_BLKH, archid, 0,
              BlockItems(7, realsize, Len(written), fletcher32(written)))

\* a block header without its item number k
BlockHeaderWithout(k, archid, realsize, written) ==
    LET items == BlockItems(7, realsize, Len(written), fletcher32(written))
    IN  EncHeader(FSA_MAGIC_BLKH, archid, 0,
                  SubSeq(items, 1, k - 1) \o SubSeq(items, k + 1, Len(items)))

\* the header that follows a block: an object header with an empty dictionary
ObjectHeader(archid) == EncHeader(FSA_MAGIC_OBJT, archid, 0, <<>>)

WrittenPayloads == { <<>>, <<5>>, <<5, 6>>, <<5>> \o FSA_MAGIC_VOLH }

\* what lies on disk for a written payload: the same bytes, or the first or
\* the last one changed
OnDisk(written) ==
    {written} \cup { Changed(written, i, 1) : i \in {1, Len(written)} \cap 1..Len(written) }

\* n bytes that hold no marker: filler, or the first bytes of a marker
Garbage(n) == [i \in 1..n |-> 9]

Garbages == { Garbage(n) : n \in 0..MaxGarbage }
                \cup { SubSeq(FSA_MAGIC_OBJT, 1, MaxGarbage) }

Followers == { <<>>, ObjectHeader(1), ObjectHeader(2), SubSeq(ObjectHeader(1), 1, 10) }

RealSizes == {1, FSA_MAX_BLKSIZE}

BlocksOf(w) ==
    { BlockHeader(1, rs, w) \o d \o g \o n :
        rs \in RealSizes, d \in OnDisk(w), g \in Garbages, n \in Followers }

BlockStreams == UNION { BlocksOf(w) : w \in WrittenPayloads }

\* block headers the reader refuses: too large a block, a field missing
RefusedStreams ==
    { BlockHeader(1, FSA_MAX_BLKSIZE + 1, <<5>>) \o <<5>> \o ObjectHeader(1) }
    \cup { BlockHeaderWithout(k, 1, 1, <<5>>) \o <<5>> \o ObjectHeader(1) : k \in 1..7 }

\* a written payload with the checksum of another one
MislabelledStreams ==
    { EncHeader(FSA_MAGIC_BLKH, 1, 0, BlockItems(7, 1, 0, fletcher32(<<5>>)))
          \o g \o ObjectHeader(1) : g \in Garbages }

StreamFiles == BlockStreams \cup RefusedStreams \cup MislabelledStreams

InitStream ==
    /\ ai = [InitReader(<<>>) EXCEPT !.archfd = 3, !.archid = 1]
    /\ openfds = {3}
    /\ file \in StreamFiles
    /\ pos = 0
    /\ op = "init"
    /\ arg = NoArg
    /\ ret = 0
    /\ out = NoOut
    /\ sc = Idle
    /\ hist = NoHist

\* allocations granted to a call: none, one, or all it asks for
SomeMem == {0, MaxAllocs}

BlockMem == {0, 1, MaxAllocs}

NextStream ==
    \/ \E allowseek \in BOOLEAN, mem \in SomeMem : HeaderBegin(allowseek, mem, 0)
    \/ HeaderStep
    \/ HeaderReturn
    \/ \E skip \in BOOLEAN, mem \in BlockMem : ReadBlock(skip, mem)

SpecStream == InitStream /\ [][NextStream]_vars

(***************************************************************************)
(* Inputs of the resync scanner alone: garbage, then a header or the end   *)
(* of the file.  read_header runs step by step.                            *)
(***************************************************************************)
ScanFiles == { g \o n : g \in Garbages, n \in Followers \cup {FSA_MAGIC_OBJT} }

InitScan ==
    /\ ai = [InitReader(<<>>) EXCEPT !.archfd = 3, !.archid = 1]
    /\ openfds = {3}
    /\ file \in ScanFiles
    /\ pos = 0
    /\ op = "init"
    /\ arg = NoArg
    /\ ret = 0
    /\ out = NoOut
    /\ sc = Idle
    /\ hist = NoHist

NextScan ==
    \/ \E allowseek \in BOOLEAN, mem \in SomeMem : HeaderBegin(allowseek, mem, 0)
    \/ HeaderStep
    \/ HeaderReturn

SpecScan == InitScan /\ [][NextScan]_vars

\* a running call goes on until it returns
SpecScanFair == SpecScan /\ WF_vars(HeaderStep) /\ WF_vars(HeaderReturn)

(***************************************************************************)
(* Properties of the block reader and the resync scanner.                  *)
(***************************************************************************)
\* the magic-length window of f at offset m
Window(f, m) == SubSeq(f, m + 1, m + FSA_SIZEOF_MAGIC)

\* the offsets from p on at which a recognized marker starts
MarkersFrom(f, p) ==
    { m \in p..(Len(f) - FSA_SIZEOF_MAGIC) : is_magic_valid(Window(f, m)) }

Least(S) == CHOOSE x \in S : \A y \in S : x <= y

Last(q) == q[Len(q)]

\* the block header in out.dico holds every field, with a logical size in range
BlockFieldsValid ==
    /\ dico_get_u64(out.dico, 0, BLOCKHEADITEMKEY_BLOCKOFFSET).ok
    /\ dico_get_u32(out.dico, 0, BLOCKHEADITEMKEY_REALSIZE).ok
    /\ dico_get_u32(out.dico, 0, BLOCKHEADITEMKEY_REALSIZE).val <= FSA_MAX_BLKSIZE
    /\ dico_get_u16(out.dico, 0, BLOCKHEADITEMKEY_COMPRESSALGO).ok
    /\ dico_get_u16(out.dico, 0, BLOCKHEADITEMKEY_ENCRYPTALGO).ok
    /\ dico_get_u32(out.dico, 0, BLOCKHEADITEMKEY_ARSIZE).ok
    /\ dico_get_u32(out.dico, 0, BLOCKHEADITEMKEY_COMPSIZE).ok
    /\ dico_get_sum(out.dico, 0, BLOCKHEADITEMKEY_ARCSUM).ok

HdrRealSize == dico_get_u32(out.dico, 0, BLOCKHEADITEMKEY_REALSIZE).val

HdrArSize == dico_get_u32(out.dico, 0, BLOCKHEADITEMKEY_ARSIZE).val

HdrArcSum == dico_get_sum(out.dico, 0, BLOCKHEADITEMKEY_ARCSUM).val

\* a read_block call, not a skip, that found a valid header, got its memory
\* and could read the whole payload, whose checksum is not the stored one
CorruptBlockRead ==
    /\ op = "read_block"
    /\ ~arg.skip
    /\ arg.mem >= 2
    /\ FdOk
    /\ BlockFieldsValid
    /\ arg.pos + HdrArSize <= Len(file)
    /\ fletcher32(SubSeq(file, arg.pos + 1, arg.pos + HdrArSize)) # HdrArcSum

\* C7: a block whose on-disk bytes do not match the stored checksum is
\* returned with success and sumok = corrupt, its buffer has the logical
\* size and holds zeros only, and the file offset is the one the payload
\* starts at.
C7_CorruptBlock ==
    CorruptBlockRead =>
        /\ ret = 0
        /\ out.sumok = 0
        /\ out.hasdata
        /\ out.blk.blkdata = Zeros(HdrRealSize)
        /\ pos = arg.pos

C7_Witness ==
    /\ CorruptBlockRead
    /\ HdrArSize = 2
    /\ HdrRealSize = FSA_MAX_BLKSIZE
    /\ out.sumok = 0
    /\ out.blk.blkdata = Zeros(FSA_MAX_BLKSIZE)
    /\ pos = arg.pos

\* the read_header call that follows a block reported corrupt, with resync
\* allowed and its dictionary allocated, has run to its end
ResyncAfterCorrupt ==
    /\ sc.pc = "done"
    /\ hist.corrupt >= 0
    /\ arg.allowseek
    /\ arg.mem > 0

\* C8: the read_header call after a corrupt block, resync allowed, returns
\* the magic of the first recognized marker at or after the start of the
\* corrupted payload, with the file offset behind that marker; a marker
\* right behind the corrupted region, none inside it, is the one found; if
\* there is no marker the call fails.
C8_ResyncFindsNext ==
    ResyncAfterCorrupt =>
        LET q == hist.corrupt
            M == MarkersFrom(file, q)
        IN  /\ M = {} => sc.ret = ERR_FATAL
            /\ M # {} =>
                   /\ sc.magic = Window(file, Least(M))
                   /\ Last(sc.reads) = Least(M)
                   /\ sc.pos >= Least(M) + FSA_SIZEOF_MAGIC
                   /\ sc.pos > q
            /\ (q + hist.corruptlen \in M /\ M \cap q..(q + hist.corruptlen - 1) = {})
                   => Last(sc.reads) = q + hist.corruptlen

C8_Witness ==
    /\ ResyncAfterCorrupt
    /\ hist.corruptlen = 2
    /\ Last(sc.reads) = hist.corrupt + 2
    /\ sc.magic = FSA_MAGIC_OBJT
    /\ sc.ret = ERR_SUCCESS

\* a read_header call with resync allowed has just left the scan loop
MarkerLocated == sc.pc = "tail" /\ arg.allowseek

\* C9: with N windows that are no marker from offset p on and a marker at
\* p + N, the scanner reads the windows at p, p + 1, ..., p + N, each once,
\* makes N seeks, and leaves the file offset at p + N + 8.
C9_ScanOffsetsOnce ==
    MarkerLocated =>
        LET p == arg.pos
            N == Least(MarkersFrom(file, p)) - p
        IN  /\ sc.reads = [i \in 1..(N + 1) |-> p + i - 1]
            /\ Len(sc.seeks) = N
            /\ sc.pos = p + N + FSA_SIZEOF_MAGIC

\* the first offset from p on at which no whole window can be read
FirstUnreadable(f, p) ==
    IF p + FSA_SIZEOF_MAGIC > Len(f) THEN p ELSE Len(f) - FSA_SIZEOF_MAGIC + 1

\* a read_header call with resync allowed, on a file with no marker from the
\* starting offset on, has run to its end
ScanWithoutMarker ==
    /\ sc.pc = "done"
    /\ arg.allowseek
    /\ arg.mem > 0
    /\ MarkersFrom(file, arg.pos) = {}

\* C10: a read_header call that scans ends; with no marker from the starting
\* offset on it ends with ERR_FATAL, at the first offset where the window
\* cannot be read.
C10_ScanTerminates ==
    /\ [](ScanWithoutMarker =>
              /\ sc.ret = ERR_FATAL
              /\ Last(sc.reads) = FirstUnreadable(file, arg.pos))
    /\ (sc.pc = "scan") ~> (sc.pc = "done")

C10_Witness ==
    /\ ScanWithoutMarker
    /\ Len(sc.seeks) >= 3
    /\ sc.ret = ERR_FATAL

(***************************************************************************)
(* The volume session: the files a volume path may hold.                   *)
(***************************************************************************)
FmtA == <<65>>
FmtB == <<66>>
VerA == <<49>>
VerB == <<50>>

VolItems(readid, volnum, fmt, creatver) ==
    << Item(DICTYPE_U32, 0, VOLUMEHEADKEY_ARCHID, cpu_to_le32(readid)),
       Item(DICTYPE_U32, 0, VOLUMEHEADKEY_VOLNUM, cpu_to_le32(volnum)),
       Item(DICTYPE_DATA, 0, VOLUMEHEADKEY_FILEFORMATVER, fmt \o <<0>>),
       Item(DICTYPE_DATA, 0, VOLUMEHEADKEY_PROGVERCREAT, creatver \o <<0>>) >>

\* a volume header: archid in the header proper, readid in its dictionary
VolHeader(archid, readid, volnum, fmt, creatver) ==
    EncHeader(FSA_MAGIC_VOLH, archid, FSA_FILESYSID_NULL,
              VolItems(readid, volnum, fmt, creatver))

VolHeaderWithout(k, archid, volnum) ==
    LET items == VolItems(archid, volnum, FmtA, VerA)
    IN  EncHeader(FSA_MAGIC_VOLH, archid, FSA_FILESYSID_NULL,
                  SubSeq(items, 1, k - 1) \o SubSeq(items, k + 1, Len(items)))

\* the first two volumes of the archives 0..MaxId and every volume of
\* archive 1, as the writer produces them
GoodVolumes ==
    { VolHeader(id, id, v, FmtA, VerA) : id \in 0..MaxId, v \in 0..1 }
    \cup { VolHeader(1, 1, v, FmtA, VerA) : v \in 0..MaxVol }

\* the same archive written in another format by another version
OtherFormat == { VolHeader(1, 1, v, FmtB, VerB) : v \in 0..1 }

\* headers whose two identity fields disagree, a volume number out of range,
\* empty strings, fields missing, a changed byte, a byte in front
OddVolumes ==
    { VolHeader(0, 1, 1, FmtA, VerA), VolHeader(1, 0, 1, FmtA, VerA),
      VolHeader(1, 1, 5, FmtA, VerA), VolHeader(1, 1, 0, <<>>, VerA),
      Changed(VolHeader(1, 1, 0, FmtA, VerA), 2 * FSA_SIZEOF_MAGIC + 4, 1),
      <<9>> \o VolHeader(1, 1, 0, FmtA, VerA) }
    \cup { VolHeaderWithout(k, 1, 0) : k \in 1..4 }

\* files that do not start with a volume header, and a volume with a block
OtherFiles ==
    { ObjectHeader(1),
      BlockHeader(1, 1, <<5>>) \o <<5>> \o ObjectHeader(1),
      BlockHeader(0, 1, <<5>>) \o <<6>> \o ObjectHeader(0),
      VolHeader(1, 1, 0, FmtA, VerA) \o BlockHeader(1, 1, <<5>>) \o <<6>> }

SessionFiles == GoodVolumes \cup OtherFormat \cup OddVolumes \cup OtherFiles

OpenOutcomes == {"ok", "enoent", "estat", "notreg"}

BasePath == <<"a", ".", "f", "s", "a">>

Init ==
    /\ ai = InitReader(BasePath)
    /\ openfds = {}
    /\ file = <<>>
    /\ pos = 0
    /\ op = "init"
    /\ arg = NoArg
    /\ ret = 0
    /\ out = NoOut
    /\ sc = Idle
    /\ hist = NoHist

\* The caller closes a volume before it opens the next one, and asks for a
\* resynchronisation at the start of a file only: SpecStream and SpecScan
\* cover the scan from inside a stream.
Next ==
    \/ /\ ai.archfd \notin openfds
       /\ \/ \E f \in SessionFiles : Open(f, "ok")
          \/ \E how \in OpenOutcomes : Open(<<>>, how)
    \/ Close
    \/ IncVolume
    \/ \E mem \in SomeMem : ReadVolheader(mem, 0)
    \/ \E allowseek \in BOOLEAN : /\ allowseek => pos = 0
                                  /\ ReadHeader(allowseek, MaxAllocs, 0)
    \/ \E skip \in BOOLEAN : ReadBlock(skip, MaxAllocs)

Spec == Init /\ [][Next]_vars

(***************************************************************************)
(* Properties of the volume session.                                       *)
(***************************************************************************)
\* the archive id in the header proper that starts at offset m of f
FrameId(f, m) ==
    le32_to_cpu(SubSeq(f, m + FSA_SIZEOF_MAGIC + 1, m + FSA_SIZEOF_MAGIC + 4))

\* the descriptor is at the start of volume 1 of an archive other than the
\* one whose volume was accepted last
AtVolumeOfOtherArchive ==
    /\ FdOk
    /\ pos = 0
    /\ \E B \in 0..MaxId : /\ B # hist.accid
                           /\ file = VolHeader(B, B, 1, FmtA, VerA)

\* C1: once a volume header has been accepted, no call changes the archive
\* identity or the file format of the reader, also when the identity of the
\* first volume is 0
C1_IdentityImmutable ==
    [][hist.accepted => (ai'.archid = ai.archid /\ ai'.filefmt = ai.filefmt)]_vars

\* an identity other than 0 and a format other than the empty string are kept
\* by every call
EstablishedIsKept ==
    [][/\ ai.archid # 0 => ai'.archid = ai.archid
       /\ ai.filefmt # <<>> => ai'.filefmt = ai.filefmt]_vars

\* C2: after volume 0 of the archive A has been accepted and the index moved
\* to 1, read_volheader on a volume header that reports an identity other
\* than A fails, for every A and B
C2_OtherArchiveRefused ==
    [][(/\ op' = "read_volheader"
        /\ hist.accepted /\ hist.lastvol = 0 /\ ai.curvol = 1
        /\ AtVolumeOfOtherArchive)
       => ret' # 0]_vars

\* read_header has located a header whose archive id differs from the one
\* the reader has established
HeaderOfOtherArchive ==
    /\ op = "read_header"
    /\ FdOk
    /\ ai.archid # 0
    /\ out.reads # <<>>
    /\ is_magic_valid(out.magic)
    /\ Last(out.reads) + FSA_SIZEOF_MAGIC + 4 <= Len(file)
    /\ FrameId(file, Last(out.reads)) # ai.archid

VolnumRead(o) == dico_get_u32(o.dico, 0, VOLUMEHEADKEY_VOLNUM)

NoResyncOnGarbage ==
    /\ op = "read_header"
    /\ sc.pc = "done"
    /\ ~arg.allowseek
    /\ arg.mem > 0
    /\ FdOk
    /\ arg.pos + FSA_SIZEOF_MAGIC <= Len(file)
    /\ ~is_magic_valid(Window(file, arg.pos))

\* C11: when the first window is no recognized marker and resync is not
\* allowed, read_header ends with ERR_FATAL after that one read: no seek, no
\* further read, the offset moved by the length of the magic
C11_NoResyncIsFatal ==
    NoResyncOnGarbage =>
        /\ sc.ret = ERR_FATAL
        /\ sc.seeks = <<>>
        /\ sc.reads = <<arg.pos>>
        /\ pos = arg.pos + FSA_SIZEOF_MAGIC

\* the case with a marker further on, which a resync would have found
C11_Witness ==
    /\ NoResyncOnGarbage
    /\ sc.ret = ERR_FATAL
    /\ MarkersFrom(file, arg.pos) # {}

(***************************************************************************)
(* Properties of read_block: skip, the tri-state result, refused headers.  *)
(***************************************************************************)
\* a read_block call with skip on a block header that holds every field
SkippedBlock ==
    /\ op = "read_block"
    /\ arg.skip
    /\ FdOk
    /\ BlockFieldsValid

\* C12: a skipped block with a complete, valid header gives success, no
\* allocation, no payload, sumok unknown, and moves the offset by the
\* on-disk size of the block
C12_SkipAdvances ==
    SkippedBlock =>
        /\ ret = 0
        /\ out.allocs = <<>>
        /\ ~out.hasdata
        /\ out.blk.blkdata = <<>>
        /\ out.sumok = -1
        /\ pos = arg.pos + HdrArSize

\* a block of more than one byte is skipped while no memory is to be had
C12_Witness ==
    /\ SkippedBlock
    /\ ret = 0
    /\ arg.mem = 0
    /\ HdrArSize > 1
\* a read_block call, not a skip, that found a valid header, got its first
\* buffer and could read the whole payload
PayloadRead ==
    /\ op = "read_block"
    /\ ~arg.skip
    /\ arg.mem >= 1
    /\ FdOk
    /\ BlockFieldsValid
    /\ arg.pos + HdrArSize <= Len(file)

\* the bytes of the payload as they lie in the file
OnDiskBytes == SubSeq(file, arg.pos + 1, arg.pos + HdrArSize)

\* C13: sumok is ok exactly when the call succeeded on a payload it read
\* whose checksum is the stored one, and then the caller gets those bytes and
\* the offset has moved by the on-disk size; it is corrupt exactly when the
\* call succeeded on a payload it read whose checksum differs; it is unknown
\* on every error return and on every skip
C13_TriState ==
    op = "read_block" =>
        /\ out.sumok \in {-1, 0, 1}
        /\ out.sumok = 1 <=>
               (ret = 0 /\ PayloadRead /\ fletcher32(OnDiskBytes) = HdrArcSum)
        /\ out.sumok = 1 =>
               (/\ out.hasdata
                /\ out.blk.blkdata = OnDiskBytes
                /\ pos = arg.pos + HdrArSize)
        /\ out.sumok = 0 <=>
               (ret = 0 /\ PayloadRead /\ fletcher32(OnDiskBytes) # HdrArcSum)
        /\ (ret # 0 \/ arg.skip) => out.sumok = -1

\* a verified payload of more than one byte has been handed out
C13_Witness ==
    /\ PayloadRead
    /\ out.sumok = 1
    /\ Len(out.blk.blkdata) > 1
\* C14: a block header whose logical size exceeds the maximum, or that
\* lacks a field, makes read_block return an error with the offset where it
\* was, nothing allocated and no payload, with and without skip
C14_RefusedHeader ==
    (op = "read_block" /\ ~BlockFieldsValid) =>
        /\ ret # 0
        /\ pos = arg.pos
        /\ out.allocs = <<>>
        /\ ~out.hasdata
        /\ out.blk.blkdata = <<>>
        /\ out.sumok = -1

\* a header that holds every field, with too large a logical size, is
\* refused though the caller only wants to skip the block
C14_Witness ==
    /\ op = "read_block"
    /\ arg.skip
    /\ ret # 0
    /\ dico_get_u32(out.dico, 0, BLOCKHEADITEMKEY_REALSIZE).ok
    /\ HdrRealSize > FSA_MAX_BLKSIZE
    /\ dico_get_u32(out.dico, 0, BLOCKHEADITEMKEY_ARSIZE).ok
\* C20: every size read_block passes to malloc is at most the maximum
\* block size, for every block header it accepts
C20_AllocsBounded ==
    op = "read_block" =>
        \A i \in 1..Len(out.allocs) : out.allocs[i] <= FSA_MAX_BLKSIZE

(***************************************************************************)
(* Volume paths: a reader with some base path at some volume index, on     *)
(* which archreader_volpath and archreader_incvolume are called.  A reader *)
(* whose base path gives a path may have a volume open and accepted.       *)
(***************************************************************************)
BackupFsa == <<"b", "a", "c", "k", "u", "p", ".", "f", "s", "a">>

BasePaths ==
    { <<>>, <<"f", "s", "a">>, <<".", "f", "s", "a">>, <<"a", ".", "f", "s", "a">>,
      BackupFsa }

VolIndexes == {0, 1, 2, 9, 10, 11, 98, 99, 100, 101, 110, 999}

\* the canonical form of a path, when it has one
Canonical(path) == [ok |-> TRUE, path |-> <<"/">> \o path]

InitPath ==
    /\ \E b \in BasePaths, k \in VolIndexes, established \in BOOLEAN :
           /\ established => Len(b) >= 4
           /\ ai = IF established
                   THEN [InitReader(b) EXCEPT !.curvol = k, !.archfd = 3, !.archid = 1,
                                              !.filefmt = FmtA, !.creatver = VerA]
                   ELSE [InitReader(b) EXCEPT !.curvol = k]
           /\ openfds = IF established THEN {3} ELSE {}
    /\ file = <<>>
    /\ pos = 0
    /\ op = "init"
    /\ arg = NoArg
    /\ ret = 0
    /\ out = NoOut
    /\ sc = Idle
    /\ hist = NoHist

NextPath ==
    \/ Volpath(NoCanon)
    \/ Volpath(Canonical(ai.basepath))
    \/ IncVolume

SpecPath == InitPath /\ [][NextPath]_vars

\* the suffix of volume k < 1000, digit by digit: two digits up to 99, three
\* from 100 on
VolSuffix(k) ==
    LET Digit(place) == <<DigitChar[((k \div place) % 10) + 1]>>
    IN  IF k < 100 THEN Digit(10) \o Digit(1)
        ELSE Digit(100) \o Digit(10) \o Digit(1)

\* C15: archreader_volpath refuses a base path of fewer than 4 characters;
\* otherwise the path of volume 0 is the base path or its canonical form and
\* the path of volume k >= 1 is the base path without its last two
\* characters followed by k, in two digits up to 99 and in plain decimal
\* from 100 on
C15_VolpathFunction ==
    op \in {"volpath", "incvolume"} =>
        IF Len(ai.basepath) < 4
        THEN ret # 0 /\ ai.volpath = <<>>
        ELSE /\ ret = 0
             /\ ai.curvol = 0 =>
                    ai.volpath = (IF arg.how = "canon" THEN <<"/">> \o ai.basepath
                                  ELSE ai.basepath)
             /\ ai.curvol >= 1 =>
                    ai.volpath = SubSeq(ai.basepath, 1, Len(ai.basepath) - 2)
                                     \o VolSuffix(ai.curvol)

\* "backup.fsa" at volume 1 gives "backup.f01"
C15_Witness ==
    /\ op = "volpath"
    /\ ai.basepath = BackupFsa
    /\ ai.curvol = 1
    /\ ai.volpath = <<"b", "a", "c", "k", "u", "p", ".", "f", "0", "1">>

\* C16: archreader_incvolume increases curvol by exactly 1 and leaves archfd,
\* archid, filefmt, creatver, the set of open descriptors and the stream as
\* they were; with a base path of at least 4 characters it succeeds with
\* volpath recomputed for the new index, with a shorter one it fails with
\* volpath as it was; no call decreases curvol
C16_IncVolumeFrame ==
    [][/\ ai'.curvol >= ai.curvol
       /\ op' = "incvolume" =>
              /\ ai'.curvol = ai.curvol + 1
              /\ IF Len(ai.basepath) >= 4
                 THEN /\ ret' = 0
                      /\ ai'.volpath = SubSeq(ai.basepath, 1, Len(ai.basepath) - 2)
                                           \o VolSuffix(ai.curvol + 1)
                 ELSE /\ ret' # 0
                      /\ ai'.volpath = ai.volpath
              /\ ai'.archfd = ai.archfd
              /\ ai'.archid = ai.archid
              /\ ai'.filefmt = ai.filefmt
              /\ ai'.creatver = ai.creatver
              /\ ai'.basepath = ai.basepath
              /\ openfds' = openfds
              /\ file' = file
              /\ pos' = pos]_vars

\* the next volume is announced while volume 0 of an accepted archive is open
C16_Witness ==
    /\ op = "incvolume"
    /\ ai.curvol = 1
    /\ ai.archfd \in openfds
    /\ ai.archid # 0
    /\ ai.filefmt # <<>>
    /\ ai.volpath = <<"b", "a", "c", "k", "u", "p", ".", "f", "0", "1">>

\* C16 as stated: every call recomputes the path for the new index
C16_AlwaysRecomputes ==
    [][op' = "incvolume" =>
           /\ ai'.curvol = ai.curvol + 1
           /\ ai'.volpath = SubSeq(ai.basepath, 1, Len(ai.basepath) - 2)
                                \o VolSuffix(ai.curvol + 1)]_vars

\* C17: when archreader_read_volheader returns, the Dictionary that
\* archreader_read_header allocated for it has been destroyed and no header
\* buffer of archreader_read_dico is still allocated
C17_DictionaryDestroyed ==
    op = "read_volheader" => /\ out.dalloc => out.destroyed
                             /\ out.live = 0

\* C18: archfd is non-negative exactly when it is a descriptor that is open,
\* no descriptor is open without being held in archfd, and after a failed
\* archreader_open the reader holds no handle
C18_HandleInvariant ==
    /\ ai.archfd >= 0 <=> ai.archfd \in openfds
    /\ openfds \subseteq {ai.archfd}
    /\ (op = "open" /\ ret # 0) => ai.archfd < 0

\* C19: a call of archreader_read_volheader that returns failure leaves
\* archid, filefmt and creatver as they were before the call
C19_RejectedLeavesState ==
    [][(op' = "read_volheader" /\ ret' # 0) =>
           /\ ai'.archid = ai.archid
           /\ ai'.filefmt = ai.filefmt
           /\ ai'.creatver = ai.creatver]_vars

====
